---- MODULE Spec2Model ----
(***************************************************************************)
(* A model of the todo application's server side: the lazily initialised   *)
(* data source (lib/db/data-source.ts), the TodoService singleton          *)
(* (lib/services/todo.service.ts) and the HTTP handlers                    *)
(* (app/api/todos/route.ts, app/api/todos/[id]/route.ts).                  *)
(***************************************************************************)
EXTENDS Integers, Sequences, FiniteSets, TLC

(***************************************************************************)
(* Bounds of the model.                                                    *)
(***************************************************************************)
\* number of concurrent callers of the service besides its constructor
NumCallers == 2
\* service calls each caller may make one after the other
MaxCalls == 2
\* times the database changes between reachable and unreachable
MaxDbFlips == 2
\* longest title a request body carries, in characters
MaxLen == 2
\* latest reading of the database clock
MaxTime == 1
\* calls made of the client hook's functions
MaxHookCalls == 3

VARIABLES
    \* ---- environment
    dbUp,           \* the database accepts connections
    flips,          \* changes of dbUp so far
    \* ---- data-source.ts
    initialized,    \* module flag `initialized`
    isInitialized,  \* AppDataSource.isInitialized
    dbInit,         \* per invocation of initializeDatabase(): where it stands
    attempts,       \* AppDataSource.initialize() calls started so far
    firstOutcome,   \* how the first AppDataSource.initialize() settled
    \* ---- todo.service.ts
    constructed,    \* `new TodoService()` has run its constructor body
    initPromise,    \* TodoService.initPromise: NoPromise or the invocation it wraps
    pc,             \* per caller: position inside a service operation
    awaiting,       \* per caller: the promise initialize() handed back
    calls,          \* per caller: service calls made so far
    joined,         \* per caller: the call began before the first setup settled
    afterFail,      \* per caller: the call began after a setup had failed
    upWhole,        \* per caller: the database was reachable during the whole call
    \* ---- the todo table and the last request handled
    store,          \* the rows of table "todo": a function from their ids
    usedIds,        \* ids the database has generated so far
    now,            \* the database clock: what now() returns
    req,            \* the last request (or direct service call) handled
    svc,            \* the service call that request made, and what it returned
    resp,           \* the response sent for it
    \* ---- service operations that overlap in time
    tx,             \* per worker: the operation it runs and how far it is
    base,           \* the table when the first of the overlapping operations began
    \* ---- hooks/useTodos.ts
    todos,          \* state `todos`: the list shown
    loading,        \* state `loading`
    error,          \* state `error`: NoError (null) or a message
    made,           \* calls of the hook's functions so far
    net             \* per call: its request, the response, how the call ended

dsVars  == <<initialized, isInitialized, dbInit, attempts, firstOutcome>>
svcVars == <<constructed, initPromise, pc, awaiting, calls, joined, afterFail, upWhole>>
envVars == <<dbUp, flips>>
txVars  == <<tx, base>>
hookVars == <<todos, loading, error, made, net>>
apiVars == <<store, usedIds, now, req, svc, resp, txVars, hookVars>>
vars    == <<envVars, dsVars, svcVars, apiVars>>

Callers == 1..NumCallers
\* an invocation of initializeDatabase() is named after who made it
\* the service's constructor
Ctor == NumCallers + 1
Invokers == Callers \cup {Ctor}
\* the value of initPromise before initialize() has set it (null)
NoPromise == NumCallers + 2

(***************************************************************************)
(* data-source.ts                                                          *)
(***************************************************************************)

\* initializeDatabase(), from its entry to its first await (or to its return
\* when nothing is awaited), run by invocation c.
initializeDatabase(c) ==
    IF ~initialized /\ ~isInitialized
        THEN \* await AppDataSource.initialize()
             /\ attempts' = attempts + 1
             /\ dbInit' = [dbInit EXCEPT ![c] = "connecting"]
             /\ UNCHANGED <<initialized, isInitialized, firstOutcome>>
        ELSE \* initialized = true (or already true); return AppDataSource
             /\ initialized' = TRUE
             /\ dbInit' = [dbInit EXCEPT ![c] = "done"]
             /\ UNCHANGED <<attempts, isInitialized, firstOutcome>>

\* AppDataSource.initialize() settles for invocation c and initializeDatabase()
\* resumes: `initialized = true` on success, rethrow on failure.
ConnectFinish(c) ==
    /\ dbInit[c] = "connecting"
    /\ IF dbUp
          THEN /\ isInitialized' = TRUE
               /\ initialized' = TRUE
               /\ dbInit' = [dbInit EXCEPT ![c] = "done"]
          ELSE /\ dbInit' = [dbInit EXCEPT ![c] = "failed"]
               /\ UNCHANGED <<initialized, isInitialized>>
    /\ firstOutcome' = IF firstOutcome = "none"
                          THEN (IF dbUp THEN "ok" ELSE "fail")
                          ELSE firstOutcome
    /\ UNCHANGED <<attempts, envVars, svcVars, apiVars>>

\* the state of the promise returned by invocation p of initializeDatabase()
PromiseState(p) ==
    CASE dbInit[p] = "connecting" -> "pending"
      [] dbInit[p] = "done"       -> "fulfilled"
      [] dbInit[p] = "failed"     -> "rejected"
      [] OTHER                    -> "none"

(***************************************************************************)
(* todo.service.ts: lazy initialisation                                    *)
(***************************************************************************)

\* initialize() without the initPromise guard
initialize_NoGuard(c) ==
    /\ initializeDatabase(c)
    /\ initPromise' = c

\* TodoService.initialize(), called by c; initPromise' is what it returns
initialize(c) ==
    IF initPromise = NoPromise
        THEN /\ initializeDatabase(c)
             /\ initPromise' = c
        ELSE UNCHANGED <<initPromise, dsVars>>

\* constructor() { this.initialize(); }
Construct ==
    /\ ~constructed
    /\ constructed' = TRUE
    /\ initialize(Ctor)
    /\ UNCHANGED <<pc, awaiting, calls, joined, afterFail, upWhole, envVars, apiVars>>

\* a service operation starts: getRepository() { await this.initialize(); ...
ServiceCall(r) ==
    /\ constructed
    /\ pc[r] = "idle"
    /\ calls[r] < MaxCalls
    /\ initialize(r)
    /\ awaiting' = [awaiting EXCEPT ![r] = initPromise']
    /\ pc' = [pc EXCEPT ![r] = "await"]
    /\ calls' = [calls EXCEPT ![r] = @ + 1]
    /\ joined' = [joined EXCEPT ![r] = (firstOutcome = "none")]
    /\ afterFail' = [afterFail EXCEPT ![r] = (firstOutcome = "fail")]
    /\ upWhole' = [upWhole EXCEPT ![r] = dbUp]
    /\ UNCHANGED <<constructed, envVars, apiVars>>

\* ... the awaited promise settles: return this.todoRepository, or throw
AwaitInit(r) ==
    /\ pc[r] = "await"
    /\ PromiseState(awaiting[r]) \in {"fulfilled", "rejected"}
    /\ pc' = [pc EXCEPT ![r] =
                IF PromiseState(awaiting[r]) = "fulfilled" THEN "ready" ELSE "failed"]
    /\ UNCHANGED <<constructed, initPromise, awaiting, calls, joined, afterFail,
                   upWhole, envVars, dsVars, apiVars>>

\* the operation ends (with its result or with the error thrown)
Return(r) ==
    /\ pc[r] \in {"ready", "failed"}
    /\ pc' = [pc EXCEPT ![r] = "idle"]
    /\ UNCHANGED <<constructed, initPromise, awaiting, calls, joined, afterFail,
                   upWhole, envVars, dsVars, apiVars>>

\* the database becomes unreachable, or reachable again
DbChange ==
    /\ flips < MaxDbFlips
    /\ flips' = flips + 1
    /\ dbUp' = ~dbUp
    /\ upWhole' = [r \in Callers |-> upWhole[r] /\ dbUp' ]
    /\ UNCHANGED <<constructed, initPromise, pc, awaiting, calls, joined, afterFail,
                   dsVars, apiVars>>

\* useState<string | null>(null): the null of `error`; no message the hook
\* sets is the empty string
NoError == ""

\* no request has been handled and the table is empty
ApiIdle ==
    /\ store = <<>>
    /\ usedIds = {}
    /\ now = 0
    /\ req = [op |-> "none"]
    /\ svc = [op |-> "none"]
    /\ resp = [status |-> 0]
    /\ tx = [w \in Callers |-> [pc |-> "idle"]]
    /\ base = <<>>
    /\ todos = <<>>
    /\ loading = TRUE
    /\ error = NoError
    /\ made = 0
    /\ net = [c \in 1..MaxHookCalls |-> [st |-> "unused"]]

InitInit ==
    /\ ApiIdle
    /\ dbUp \in BOOLEAN
    /\ flips = 0
    /\ initialized = FALSE
    /\ isInitialized = FALSE
    /\ dbInit = [c \in Invokers |-> "idle"]
    /\ attempts = 0
    /\ firstOutcome = "none"
    /\ constructed = FALSE
    /\ initPromise = NoPromise
    /\ pc = [r \in Callers |-> "idle"]
    /\ awaiting = [r \in Callers |-> NoPromise]
    /\ calls = [r \in Callers |-> 0]
    /\ joined = [r \in Callers |-> FALSE]
    /\ afterFail = [r \in Callers |-> FALSE]
    /\ upWhole = [r \in Callers |-> FALSE]

NextInit ==
    \/ Construct
    \/ \E c \in Invokers : ConnectFinish(c)
    \/ \E r \in Callers : ServiceCall(r)
    \/ \E r \in Callers : AwaitInit(r)
    \/ \E r \in Callers : Return(r)
    \/ DbChange

SpecInit == InitInit /\ [][NextInit]_vars

(***************************************************************************)
(* Properties of the lazy initialisation                                   *)
(***************************************************************************)

\* C1: while the first connection setup has not settled, exactly one
\* AppDataSource.initialize() has been started however many callers have
\* reached the service, and every caller that began before it settled
\* observes that attempt's outcome: it succeeds iff the attempt succeeded.
C1_SingleSetupSharedOutcome ==
    /\ (constructed /\ firstOutcome = "none") => attempts = 1
    /\ \A r \in Callers :
          (joined[r] /\ pc[r] \in {"ready", "failed"})
              => ((pc[r] = "ready") <=> (firstOutcome = "ok"))

\* two callers began while the first setup was pending and both saw it fail
C1_Witness ==
    \E r1, r2 \in Callers :
        /\ r1 # r2
        /\ joined[r1] /\ joined[r2]
        /\ pc[r1] = "failed" /\ pc[r2] = "failed"
        /\ attempts = 1

\* C2: a failed connection setup is not cached: a service call that begins
\* after a setup has failed, with the database reachable during the whole
\* call, attempts setup again and succeeds.
C2_FailureNotCached ==
    \A r \in Callers :
        (afterFail[r] /\ upWhole[r] /\ pc[r] \in {"ready", "failed"})
            => (pc[r] = "ready" /\ attempts >= 2)

(***************************************************************************)
(* Values                                                                  *)
(***************************************************************************)

\* Strings are sequences of characters; " " stands for white space.
Chars == {"a", " "}
Strings(n) == UNION {[1..k -> Chars] : k \in 0..n}

\* String.prototype.trim()
RECURSIVE TrimStart(_)
TrimStart(str) ==
    IF str # <<>> /\ Head(str) = " " THEN TrimStart(Tail(str)) ELSE str
RECURSIVE TrimEnd(_)
TrimEnd(str) ==
    IF str # <<>> /\ str[Len(str)] = " "
        THEN TrimEnd(SubSeq(str, 1, Len(str) - 1))
        ELSE str
trim(str) == TrimEnd(TrimStart(str))

\* ids as request paths and bodies carry them: strings in UUID syntax, and
\* a string that is not
Uuids == {"u1", "u2"}
Malformed == {"abc"}
RequestIds == Uuids \cup Malformed

\* The id column is PrimaryGeneratedColumn("uuid") on postgres: a value
\* that is not in UUID syntax is refused by any statement that carries it.
IsUuid(id) == id \in Uuids

\* Todo.priority: "low" | "medium" | "high", column default "medium"
PriorityEnum == {"low", "medium", "high"}
\* SQL NULL in a text column (no string of Chars equals it)
NULL == <<"NULL">>
\* the data columns of Todo modelled besides the primary key (dueDate is
\* left out), and what a column holds when an INSERT gives it no value
Columns == {"title", "descriptrion", "completed", "priority"}
\* a default priority of "low"
ColumnDefault_Low == [descriptrion |-> NULL, completed |-> FALSE, priority |-> "low"]
ColumnDefault == [descriptrion |-> NULL, completed |-> FALSE, priority |-> "medium"]
\* @CreateDateColumn() createdAt, @UpdateDateColumn() updatedAt: timestamps
\* with default now(), read off the database clock
Stamps == {"createdAt", "updatedAt"}
Fields == Columns \cup Stamps

Has(obj, key) == key \in DOMAIN obj

\* a merge that skips a completed of false, as `if (data.completed)` would
Assign_Truthy(todo, data) ==
    [k \in DOMAIN todo \cup DOMAIN data |->
        IF k \in DOMAIN data /\ ~(k = "completed" /\ data[k] = FALSE)
            THEN data[k] ELSE todo[k]]

\* Object.assign(todo, data)
Assign(todo, data) ==
    [k \in DOMAIN todo \cup DOMAIN data |->
        IF k \in DOMAIN data THEN data[k] ELSE todo[k]]

(***************************************************************************)
(* Repository<Todo> over the table (TypeORM on postgres)                   *)
(***************************************************************************)

Throw(e) == [kind |-> "throw", error |-> e]
Null     == [kind |-> "null"]
Value(v) == [kind |-> "value", value |-> v]
Bool(b)  == [kind |-> "bool", value |-> b]

\* the entity loaded from row id
Entity(s, id) == [id |-> id] @@ s[id]

\* repo.findOne({ where: { id } })
findOne(s, id) ==
    IF ~IsUuid(id) THEN Throw("QueryFailedError")
    ELSE IF id \in DOMAIN s THEN Value(Entity(s, id))
    ELSE Null

\* the columns in which entity todo differs from the row it is saved over
Changed(s, todo) == {k \in Fields : todo[k] # s[todo.id][k]}

\* the row an UPDATE of the changed columns leaves: updatedAt is set to
\* CURRENT_TIMESTAMP unless it is itself among the changed columns
Updated(s, todo) ==
    [k \in Fields |->
        IF k = "updatedAt" /\ k \notin Changed(s, todo) THEN now ELSE todo[k]]

\* repo.save(todo) of an entity that carries an id. The row with that id is
\* loaded and compared: when no column differs no statement is issued, else
\* the row is updated; when there is no such row one is inserted with the
\* entity's values. Properties that are no columns are not stored. The
\* entity handed in is returned, its updatedAt read back from the row.
save(s, todo) ==
    IF ~IsUuid(todo.id)
        THEN [ret |-> Throw("QueryFailedError"), store |-> s]
    ELSE IF todo.id \in DOMAIN s /\ Changed(s, todo) = {}
        THEN [ret |-> Value(todo), store |-> s]
    ELSE LET row == IF todo.id \in DOMAIN s
                        THEN Updated(s, todo)
                        ELSE [k \in Fields |-> todo[k]]
         IN  [ret   |-> Value([todo EXCEPT !.updatedAt = row.updatedAt]),
              store |-> [i \in DOMAIN s \cup {todo.id} |->
                            IF i = todo.id THEN row ELSE s[i]]]

\* repo.save(repo.create(data)): INSERT with a generated id and the column
\* defaults for what data leaves out; title is NOT NULL and has no default
insert(s, data, newId) ==
    IF ~Has(data, "title")
        THEN [ret |-> Throw("QueryFailedError"), store |-> s]
        ELSE LET row == [k \in Fields |->
                            IF Has(data, k) THEN data[k]
                            ELSE IF k \in Stamps THEN now
                            ELSE ColumnDefault[k]]
             IN  [ret   |-> Value([id |-> newId] @@ row),
                  store |-> [i \in DOMAIN s \cup {newId} |->
                                IF i = newId THEN row ELSE s[i]]]

\* the ids of the rows that agree with every key of where
Matching(s, where) ==
    {i \in DOMAIN s : \A k \in DOMAIN where : s[i][k] = where[k]}

\* the ways of listing ids by createdAt descending: rows of equal createdAt
\* come in either order (ORDER BY "createdAt" DESC names no second key)
Orderings(s, ids) ==
    {o \in [1..Cardinality(ids) -> ids] :
        /\ \A a, b \in DOMAIN o : a # b => o[a] # o[b]
        /\ \A a, b \in DOMAIN o : a < b => s[o[a]].createdAt >= s[o[b]].createdAt}

\* repo.find({ where, order: { createdAt: "DESC" } }): the lists it may return
find(s, where) ==
    {[n \in DOMAIN o |-> Entity(s, o[n])] : o \in Orderings(s, Matching(s, where))}

\* repo.delete(id): DELETE ... WHERE id = $1, result.affected
remove(s, id) ==
    IF ~IsUuid(id)
        THEN [ret |-> Throw("QueryFailedError"), store |-> s]
        ELSE [ret   |-> Bool(id \in DOMAIN s),
              store |-> [i \in DOMAIN s \ {id} |-> s[i]]]

(***************************************************************************)
(* todo.service.ts: the operations                                         *)
(***************************************************************************)

\* a getRepository() that tests initPromise for being set, not its outcome
RepoReady_Set == initPromise # NoPromise

\* getRepository(): await this.initialize() has the settled initPromise
RepoReady == initPromise # NoPromise /\ PromiseState(initPromise) = "fulfilled"
NoRepo(s) == [ret |-> Throw("ConnectionError"), store |-> s]

\* findAll whose test of completed is `if (filters?.completed)`
findAll_Truthy(s, filters) ==
    IF ~RepoReady THEN {Throw("ConnectionError")}
    ELSE LET where ==
                 (IF Has(filters, "completed") /\ filters.completed
                     THEN [completed |-> filters.completed] ELSE <<>>)
                 @@ (IF Has(filters, "priority") /\ filters.priority # ""
                        THEN [priority |-> filters.priority] ELSE <<>>)
         IN  {Value(l) : l \in find(s, where)}

\* findAll(filters): the results it may return (it writes nothing);
\* findAll() is findAll of a filter with no key
findAll(s, filters) ==
    IF ~RepoReady THEN {Throw("ConnectionError")}
    ELSE LET where ==
                 (IF Has(filters, "completed")
                     THEN [completed |-> filters.completed] ELSE <<>>)
                 @@ (IF Has(filters, "priority") /\ filters.priority # ""
                        THEN [priority |-> filters.priority] ELSE <<>>)
         IN  {Value(l) : l \in find(s, where)}

findById(s, id) ==
    IF ~RepoReady THEN NoRepo(s)
    ELSE [ret |-> findOne(s, id), store |-> s]

create(s, data, newId) ==
    IF ~RepoReady THEN NoRepo(s)
    ELSE insert(s, data, newId)

update(s, id, data) ==
    IF ~RepoReady THEN NoRepo(s)
    ELSE LET todo == findById(s, id).ret
         IN  IF todo.kind # "value"
                 THEN [ret |-> todo, store |-> s]
                 ELSE save(s, Assign(todo.value, data))

delete(s, id) ==
    IF ~RepoReady THEN NoRepo(s)
    ELSE remove(s, id)

\* toggleComplete that sets completed instead of inverting it
toggleComplete_Set(s, id) ==
    LET todo == findById(s, id).ret
    IN  IF todo.kind # "value"
            THEN [ret |-> todo, store |-> s]
            ELSE save(s, [todo.value EXCEPT !.completed = TRUE])

toggleComplete(s, id) ==
    LET todo == findById(s, id).ret
    IN  IF todo.kind # "value"
            THEN [ret |-> todo, store |-> s]
            ELSE save(s, [todo.value EXCEPT !.completed = ~todo.value.completed])

(***************************************************************************)
(* The route handlers                                                      *)
(***************************************************************************)

Ok(status, data)   == [status |-> status, success |-> TRUE, data |-> data]
\* a failure answered without the { status } option: the status stays 200
Fail_NoStatus(status, text) == [status |-> 200, success |-> FALSE, error |-> text]
Fail(status, text) == [status |-> status, success |-> FALSE, error |-> text]
NotFound           == Fail(404, "Todo not found")

\* the check without the trim: !title
TitleRejected_NoTrim(body) ==
    \/ ~Has(body, "title")
    \/ body.title = <<>>

\* !title || title.trim().length === 0
TitleRejected(body) ==
    \/ ~Has(body, "title")
    \/ body.title = <<>>
    \/ Len(trim(body.title)) = 0

\* the argument of create with the title as the body has it
CreateData_NoTrim(body) ==
    [title    |-> body.title,
     priority |-> IF Has(body, "priority") /\ body.priority # ""
                     THEN body.priority ELSE "medium"]
    @@ (IF Has(body, "descriptrion")
           THEN [descriptrion |-> trim(body.descriptrion)]
           ELSE <<>>)

\* the argument POST hands to todoService.create (dueDate left out):
\* title.trim(), descriptrion?.trim(), priority || "medium"
CreateData(body) ==
    [title    |-> trim(body.title),
     priority |-> IF Has(body, "priority") /\ body.priority # ""
                     THEN body.priority ELSE "medium"]
    @@ (IF Has(body, "descriptrion")
           THEN [descriptrion |-> trim(body.descriptrion)]
           ELSE <<>>)

\* the filters GET builds when it reads completed as Boolean(completed)
Filters_Loose(query) ==
    (IF Has(query, "completed")
        THEN [completed |-> (query.completed # "")] ELSE <<>>)
    @@ (IF Has(query, "priority") /\ query.priority # ""
           THEN [priority |-> query.priority] ELSE <<>>)

\* the filters GET builds when it takes completed from "true" and "false"
\* only and ignores any other value
Filters_Strict(query) ==
    (IF Has(query, "completed") /\ query.completed \in {"true", "false"}
        THEN [completed |-> (query.completed = "true")] ELSE <<>>)
    @@ (IF Has(query, "priority") /\ query.priority # ""
           THEN [priority |-> query.priority] ELSE <<>>)

\* the filters GET builds from the query string: a key of query is a
\* parameter that searchParams.get() finds
Filters(query) ==
    (IF Has(query, "completed")
        THEN [completed |-> (query.completed = "true")] ELSE <<>>)
    @@ (IF Has(query, "priority") /\ query.priority # ""
           THEN [priority |-> query.priority] ELSE <<>>)

\* GET /api/todos: the [resp, svc, store] it may end with
GET(s, query) ==
    {[resp  |-> IF ret.kind = "throw" THEN Fail(500, "Failed to fetch todos")
                ELSE Ok(200, ret.value),
      svc   |-> [op |-> "findAll", filters |-> Filters(query), ret |-> ret],
      store |-> s] : ret \in findAll(s, Filters(query))}

\* POST /api/todos: [resp, svc, store]
POST(s, body, newId) ==
    IF TitleRejected(body)
        THEN [resp |-> Fail(400, "Title is required"),
              svc |-> [op |-> "none"], store |-> s]
        ELSE LET r == create(s, CreateData(body), newId)
             IN  [resp  |-> IF r.ret.kind = "throw"
                               THEN Fail(500, "Failed to create todo")
                               ELSE Ok(201, r.ret.value),
                  svc   |-> [op |-> "create", ret |-> r.ret],
                  store |-> r.store]

\* GET /api/todos/:id
GET_id(s, id) ==
    LET r == findById(s, id)
    IN  [resp  |-> IF r.ret.kind = "throw" THEN Fail(500, "Failed to fetch todo")
                   ELSE IF r.ret.kind = "null" THEN NotFound
                   ELSE Ok(200, r.ret.value),
         svc   |-> [op |-> "findById", id |-> id, ret |-> r.ret],
         store |-> r.store]

\* PATCH that answers a failure with the text of the error caught
PATCH_id_Leaky(s, id, body) ==
    LET r == update(s, id, body)
    IN  [resp  |-> IF r.ret.kind = "throw" THEN Fail(500, r.ret.error)
                   ELSE IF r.ret.kind = "null" THEN NotFound
                   ELSE Ok(200, r.ret.value),
         svc   |-> [op |-> "update", id |-> id, ret |-> r.ret],
         store |-> r.store]

\* PATCH /api/todos/:id
PATCH_id(s, id, body) ==
    LET r == update(s, id, body)
    IN  [resp  |-> IF r.ret.kind = "throw" THEN Fail(500, "Failed to update todo")
                   ELSE IF r.ret.kind = "null" THEN NotFound
                   ELSE Ok(200, r.ret.value),
         svc   |-> [op |-> "update", id |-> id, ret |-> r.ret],
         store |-> r.store]

\* DELETE /api/todos/:id
DELETE_id(s, id) ==
    LET r == delete(s, id)
    IN  [resp  |-> IF r.ret.kind = "throw" THEN Fail(500, "Failed to delete todo")
                   ELSE IF ~r.ret.value THEN NotFound
                   ELSE [status |-> 200, success |-> TRUE,
                         message |-> "Todo deleted successfully"],
         svc   |-> [op |-> "delete", id |-> id, ret |-> r.ret],
         store |-> r.store]

(***************************************************************************)
(* Requests, handled one after the other                                   *)
(***************************************************************************)

\* request bodies: any subset of the keys, each with a value of its own
WithKey(key, values) == {<<>>} \cup {(key :> v) : v \in values}
Merge(A, B) == {a @@ b : a \in A, b \in B}

\* titles a body may carry: every string of up to MaxLen characters
BodyTitles     == Strings(MaxLen)
\* a value of the enumeration, and strings outside it
BodyPriorities == {"high", "urgent"}

Handled(request, out) ==
    /\ req' = request
    /\ resp' = out.resp
    /\ svc' = out.svc
    /\ store' = out.store
    /\ usedIds' = usedIds \cup DOMAIN out.store
    /\ UNCHANGED <<now, txVars, hookVars, envVars, dsVars, svcVars>>

\* newId is the id the database generates should the request insert a
\* row: one it has not generated before
PostReq(body) ==
    \E newId \in Uuids :
        LET out == POST(store, body, newId)
        IN  /\ (out.svc.op = "create" /\ out.svc.ret.kind = "value")
                  => newId \notin usedIds
            /\ Handled([op |-> "POST", body |-> body], out)

GetReq(id) ==
    Handled([op |-> "GET", id |-> id], GET_id(store, id))

PatchReq(id, body) ==
    Handled([op |-> "PATCH", id |-> id, body |-> body], PATCH_id(store, id, body))

DeleteReq(id) ==
    Handled([op |-> "DELETE", id |-> id], DELETE_id(store, id))

\* a direct call of todoService.toggleComplete(id)
ToggleCall(id) ==
    LET r == toggleComplete(store, id)
    IN  Handled([op |-> "toggleComplete", id |-> id],
                [resp  |-> [status |-> 0],
                 svc   |-> [op |-> "toggleComplete", id |-> id, ret |-> r.ret],
                 store |-> r.store])

\* GET /api/todos?completed=..&priority=..
ListReq(query) ==
    \E out \in GET(store, query) : Handled([op |-> "LIST", query |-> query], out)

\* a direct call of todoService.findAll(filters)
ListCall(filters) ==
    \E ret \in findAll(store, filters) :
        Handled([op |-> "findAll", filters |-> filters],
                [resp  |-> [status |-> 0],
                 svc   |-> [op |-> "findAll", filters |-> filters, ret |-> ret],
                 store |-> store])

\* a direct call of todoService.create(data)
CreateCall(data) ==
    \E newId \in Uuids :
        LET r == create(store, data, newId)
        IN  /\ r.ret.kind = "value" => newId \notin usedIds
            /\ Handled([op |-> "create", data |-> data],
                       [resp  |-> [status |-> 0],
                        svc   |-> [op |-> "create", ret |-> r.ret],
                        store |-> r.store])

\* the database clock advances
Tick ==
    /\ now < MaxTime
    /\ now' = now + 1
    /\ UNCHANGED <<store, usedIds, req, svc, resp, txVars, hookVars,
                   envVars, dsVars, svcVars>>

\* Service operations that overlap: each await of the repository is a step
\* of its own, and other operations may run between two of them.

\* worker w calls update, toggleComplete or delete and runs up to the end
\* of its first repository call: findOne for update and toggleComplete
\* (which return at once when it finds no row), delete for delete
TxBegin(w, op, id, body) ==
    /\ tx[w].pc = "idle"
    /\ base' = IF \A v \in Callers : tx[v].pc = "idle" THEN store ELSE base
    /\ LET call == [op |-> op, id |-> id, body |-> body]
           r    == IF op = "delete" THEN delete(store, id) ELSE findById(store, id)
       IN  /\ store' = r.store
           /\ tx' = [tx EXCEPT ![w] =
                        IF op # "delete" /\ r.ret.kind = "value"
                            THEN call @@ [pc |-> "loaded", todo |-> r.ret.value]
                            ELSE call @@ [pc |-> "done", ret |-> r.ret]]
    /\ usedIds' = usedIds \cup DOMAIN store'
    /\ UNCHANGED <<now, req, svc, resp, hookVars, envVars, dsVars, svcVars>>

\* worker w resumes after findOne: it changes the entity it loaded and
\* saves it, into the table as it is by then
TxSave(w) ==
    /\ tx[w].pc = "loaded"
    /\ LET todo == tx[w].todo
           r    == save(store, IF tx[w].op = "update"
                                  THEN Assign(todo, tx[w].body)
                                  ELSE [todo EXCEPT !.completed = ~todo.completed])
       IN  /\ store' = r.store
           /\ tx' = [tx EXCEPT ![w] =
                        [op |-> tx[w].op, id |-> tx[w].id, body |-> tx[w].body,
                         pc |-> "done", ret |-> r.ret]]
    /\ usedIds' = usedIds \cup DOMAIN store'
    /\ UNCHANGED <<now, base, req, svc, resp, hookVars, envVars, dsVars, svcVars>>

(***************************************************************************)
(* hooks/useTodos.ts: the client hook. A call of one of its functions      *)
(* sends a request; the server handles it; the response, or the failure of *)
(* the fetch, comes back and the function resumes. Calls overlap, and      *)
(* responses come back in any order.                                       *)
(***************************************************************************)

\* a function of the hook runs up to its `await fetch(...)`
Send(request) ==
    /\ made < MaxHookCalls
    /\ made' = made + 1
    /\ net' = [net EXCEPT ![made + 1] = [st |-> "sent"] @@ request]
    /\ UNCHANGED <<store, usedIds, now, req, svc, resp, txVars,
                   envVars, dsVars, svcVars>>

\* fetchTodos(), as the effect calls it on mount: setLoading(true),
\* setError(null), GET /api/todos?
fetchTodos ==
    /\ Send([kind |-> "fetch", query |-> <<>>])
    /\ loading' = TRUE
    /\ error' = NoError
    /\ UNCHANGED todos

\* the functions the page hands to its components are called after the
\* mount, whose effect has called fetchTodos
Mounted == made >= 1

\* createTodo(todoData): POST /api/todos
createTodo(todoData) ==
    /\ Mounted
    /\ Send([kind |-> "create", body |-> todoData])
    /\ UNCHANGED <<todos, loading, error>>

\* updateTodo(id, updates): PATCH /api/todos/:id; via names the caller
SendUpdate(id, updates, via) ==
    /\ Mounted
    /\ Send([kind |-> "update", id |-> id, body |-> updates, via |-> via])
    /\ UNCHANGED <<todos, loading, error>>

updateTodo(id, updates) == SendUpdate(id, updates, "updateTodo")

\* a deleteTodo that takes the todo off the list before the server answers
deleteTodo_Optimistic(id) ==
    /\ Mounted
    /\ Send([kind |-> "delete", id |-> id])
    /\ todos' = SelectSeq(todos, LAMBDA todo : todo.id # id)
    /\ UNCHANGED <<loading, error>>

\* deleteTodo(id): DELETE /api/todos/:id
deleteTodo(id) ==
    /\ Mounted
    /\ Send([kind |-> "delete", id |-> id])
    /\ UNCHANGED <<todos, loading, error>>

\* todos.find((t) => t.id === id): the first entry of that id
Find(id) ==
    LET hits == {n \in DOMAIN todos : todos[n].id = id}
    IN  todos[CHOOSE n \in hits : \A m \in hits : n <= m]

\* the hook's toggleComplete(id), for an id on the list:
\* updateTodo(id, { completed: !todo.completed })
useTodos_toggleComplete(id) ==
    /\ \E n \in DOMAIN todos : todos[n].id = id
    /\ SendUpdate(id, [completed |-> ~Find(id).completed], "toggleComplete")

\* the response to call c is on its way back
Answer(c, out) ==
    /\ store' = out.store
    /\ usedIds' = usedIds \cup DOMAIN out.store
    /\ net' = [net EXCEPT ![c] = [st |-> "answered", data |-> out.resp] @@ net[c]]
    /\ UNCHANGED <<now, req, svc, resp, txVars, todos, loading, error, made,
                   envVars, dsVars, svcVars>>

\* the server handles the request of call c
Serve(c) ==
    /\ net[c].st = "sent"
    /\ CASE net[c].kind = "fetch" ->
               \E out \in GET(store, net[c].query) : Answer(c, out)
         [] net[c].kind = "create" ->
               \E newId \in Uuids :
                   LET out == POST(store, net[c].body, newId)
                   IN  /\ (out.svc.op = "create" /\ out.svc.ret.kind = "value")
                             => newId \notin usedIds
                       /\ Answer(c, out)
         [] net[c].kind = "update" ->
               Answer(c, PATCH_id(store, net[c].id, net[c].body))
         [] net[c].kind = "delete" ->
               Answer(c, DELETE_id(store, net[c].id))

\* the fetch of call c rejects: the request never reaches the server
NetFail(c) ==
    /\ net[c].st = "sent"
    /\ net' = [net EXCEPT ![c] = [st |-> "failed"] @@ net[c]]
    /\ UNCHANGED <<store, usedIds, now, req, svc, resp, txVars,
                   todos, loading, error, made, envVars, dsVars, svcVars>>

\* call c got a response that says success
Succeeded(c) == net[c].st = "answered" /\ net[c].data.success

\* the message call c sets when it has not succeeded: data.error of the
\* response; when the fetch rejected, fetchTodos' fixed text and, in the
\* other functions, the message of the error caught
Message(c) ==
    IF net[c].st = "answered" THEN net[c].data.error
    ELSE IF net[c].kind = "fetch" THEN "An error occurred while fetching todos"
    ELSE "fetch failed"

\* the argument of setTodos when call c resumes
TodosAfter(c) ==
    IF ~Succeeded(c) THEN todos
    ELSE CASE net[c].kind = "fetch"  -> net[c].data.data
           [] net[c].kind = "create" -> <<net[c].data.data>> \o todos
           [] net[c].kind = "update" ->
                 [n \in DOMAIN todos |->
                     IF todos[n].id = net[c].id THEN net[c].data.data ELSE todos[n]]
           [] net[c].kind = "delete" ->
                 SelectSeq(todos, LAMBDA todo : todo.id # net[c].id)

\* an error state that a success clears
ErrorAfter_Clearing(c) == IF Succeeded(c) THEN NoError ELSE Message(c)

\* state `error` when call c has resumed
ErrorAfter(c) == IF Succeeded(c) THEN error ELSE Message(c)

\* call c resumes after `await fetch(...)` and runs to its end: it returns,
\* or rethrows what it caught; its entry of net records how it ended and
\* what `error` was then
Resume(c) ==
    /\ net[c].st \in {"answered", "failed"}
    /\ todos' = TodosAfter(c)
    /\ error' = ErrorAfter(c)
    /\ loading' = IF net[c].kind = "fetch" THEN FALSE ELSE loading
    /\ net' = [net EXCEPT ![c] =
                 [st      |-> "settled",
                  kind    |-> net[c].kind,
                  ok      |-> Succeeded(c),
                  outcome |-> IF net[c].kind # "fetch" /\ ~Succeeded(c)
                                 THEN "thrown" ELSE "returned",
                  error   |-> ErrorAfter(c)]]
    /\ UNCHANGED <<store, usedIds, now, req, svc, resp, txVars, made,
                   envVars, dsVars, svcVars>>

\* the service has been constructed and its initPromise has settled
InitSettled(ok) ==
    /\ dbUp = ok
    /\ flips = 0
    /\ initialized = ok
    /\ isInitialized = ok
    /\ dbInit = [c \in Invokers |-> IF c = Ctor
                                      THEN (IF ok THEN "done" ELSE "failed")
                                      ELSE "idle"]
    /\ attempts = 1
    /\ firstOutcome = (IF ok THEN "ok" ELSE "fail")
    /\ constructed = TRUE
    /\ initPromise = Ctor
    /\ pc = [r \in Callers |-> "idle"]
    /\ awaiting = [r \in Callers |-> NoPromise]
    /\ calls = [r \in Callers |-> 0]
    /\ joined = [r \in Callers |-> FALSE]
    /\ afterFail = [r \in Callers |-> FALSE]
    /\ upWhole = [r \in Callers |-> FALSE]

Init ==
    /\ ApiIdle
    /\ \E ok \in BOOLEAN : InitSettled(ok)

\* one request is handled, its body and id drawn from the given sets
Requests(postBodies, patchBodies, ids) ==
    \/ \E body \in postBodies : PostReq(body)
    \/ \E id \in ids : GetReq(id)
    \/ \E id \in ids, body \in patchBodies : PatchReq(id, body)
    \/ \E id \in ids : DeleteReq(id)
    \/ \E id \in ids : ToggleCall(id)

\* Spec: bodies that vary the title (every string up to MaxLen) or completed
PostBodies  == WithKey("title", BodyTitles)
PatchBodies == WithKey("title", BodyTitles) \cup WithKey("completed", BOOLEAN)

Next == Requests(PostBodies, PatchBodies, RequestIds)

Spec == Init /\ [][Next]_vars

\* SpecFields: bodies that vary title, completed and priority together
FieldTitles      == {<<"a">>, <<"a", "a">>}
FieldPostBodies  ==
    Merge(WithKey("title", FieldTitles), WithKey("priority", BodyPriorities))
FieldPatchBodies ==
    Merge(Merge(WithKey("title", FieldTitles), WithKey("completed", BOOLEAN)),
          WithKey("priority", BodyPriorities))

NextFields == Requests(FieldPostBodies, FieldPatchBodies, RequestIds)

SpecFields == Init /\ [][NextFields]_vars

\* SpecIds: PATCH bodies that may carry an id
IdPostBodies  == WithKey("title", {<<"a">>})
IdPatchBodies ==
    Merge(WithKey("completed", BOOLEAN), WithKey("id", RequestIds))

NextIds == Requests(IdPostBodies, IdPatchBodies, RequestIds)

SpecIds == Init /\ [][NextIds]_vars

\* SpecTime: the clock advances between requests; PATCH bodies are empty
\* or carry completed or createdAt
BodyStamps      == {0}
TimePostBodies  == WithKey("title", {<<"a">>})
TimePatchBodies ==
    WithKey("completed", BOOLEAN) \cup WithKey("createdAt", BodyStamps)

NextTime ==
    \/ Tick
    \/ Requests(TimePostBodies, TimePatchBodies, RequestIds)

SpecTime == Init /\ [][NextTime]_vars

\* SpecList: the list is asked for, through the service and through GET,
\* of todos that differ in priority, completed and createdAt
ListPostBodies  ==
    Merge(WithKey("title", {<<"a">>}), WithKey("priority", {"high"}))
ListPatchBodies == WithKey("completed", {TRUE})
ListFilters     ==
    Merge(WithKey("completed", BOOLEAN), WithKey("priority", BodyPriorities))
ListQueries     ==
    Merge(WithKey("completed", {"true", "false"}),
          WithKey("priority", {"medium", "high"}))

NextList ==
    \/ Tick
    \/ Requests(ListPostBodies, ListPatchBodies, Uuids)
    \/ \E filters \in ListFilters : ListCall(filters)
    \/ \E query \in ListQueries : ListReq(query)

SpecList == Init /\ [][NextList]_vars

\* SpecCreate: todos are created through the service and through POST, with
\* titles that have or lack surrounding white space
CreateTitles     == {<<"a">>, <<" ", "a">>}
CreateDatas      ==
    Merge(WithKey("title", CreateTitles), WithKey("priority", BodyPriorities))
CreatePostBodies == WithKey("title", CreateTitles)

NextCreate ==
    \/ Tick
    \/ \E data \in CreateDatas : CreateCall(data)
    \/ \E body \in CreatePostBodies : PostReq(body)
    \/ \E id \in Uuids : DeleteReq(id)

SpecCreate == Init /\ [][NextCreate]_vars

\* SpecDesc: bodies that carry a description under the name the client
\* form gives it
Descriptions    == {<<"a">>}
DescPostBodies  ==
    Merge(WithKey("title", {<<"a">>}), WithKey("description", Descriptions))
DescPatchBodies == WithKey("description", Descriptions)

NextDesc == Requests(DescPostBodies, DescPatchBodies, Uuids)

SpecDesc == Init /\ [][NextDesc]_vars

\* SpecQuery: GET /todos with a completed parameter of any value
QueryPostBodies  == WithKey("title", {<<"a">>})
QueryPatchBodies == WithKey("completed", {TRUE})
OddQueries       == WithKey("completed", {"", "1", "yes", "true"})

NextQuery ==
    \/ Requests(QueryPostBodies, QueryPatchBodies, Uuids)
    \/ \E query \in OddQueries : ListReq(query)

SpecQuery == Init /\ [][NextQuery]_vars

\* SpecConc: todos are created, then each worker runs one update,
\* toggleComplete or delete, the operations overlapping
ConcPostBodies  == {[title |-> <<"a">>]}
ConcPatchBodies == {[completed |-> TRUE], [priority |-> "high"]}

NextConc ==
    \/ /\ \A w \in Callers : tx[w].pc = "idle"
       /\ \E body \in ConcPostBodies : PostReq(body)
    \/ \E w \in Callers, id \in Uuids : TxBegin(w, "delete", id, <<>>)
    \/ \E w \in Callers, id \in Uuids : TxBegin(w, "toggleComplete", id, <<>>)
    \/ \E w \in Callers, id \in Uuids, body \in ConcPatchBodies :
          TxBegin(w, "update", id, body)
    \/ \E w \in Callers : TxSave(w)

SpecConc == Init /\ [][NextConc]_vars

\* SpecHook: one page uses the hook against the server
HookCreateDatas == {[title |-> <<"a">>]}
HookUpdates     == {[completed |-> TRUE]}

NextHook ==
    \/ fetchTodos
    \/ \E todoData \in HookCreateDatas : createTodo(todoData)
    \/ \E id \in Uuids, updates \in HookUpdates : updateTodo(id, updates)
    \/ \E id \in Uuids : deleteTodo(id)
    \/ \E id \in Uuids : useTodos_toggleComplete(id)
    \/ \E c \in DOMAIN net : Serve(c)
    \/ \E c \in DOMAIN net : NetFail(c)
    \/ \E c \in DOMAIN net : Resume(c)

SpecHook == Init /\ [][NextHook]_vars

(***************************************************************************)
(* Properties of the stored todos and of the handlers                      *)
(***************************************************************************)

\* a title that is empty or holds white space only
Blank(str) == \A i \in 1..Len(str) : str[i] = " "

\* C3: every stored todo's title is non-empty and not whitespace-only.
C3_StoredTitleNotBlank ==
    \A i \in DOMAIN store : ~Blank(store[i].title)

\* C4: update(id, partial) creates no row and changes no row but row id,
\* whatever the partial carries (an id included).
C4_UpdateTouchesOnlyItsRow ==
    [][(req'.op = "PATCH" /\ PatchReq(req'.id, req'.body)) =>
          /\ DOMAIN store' = DOMAIN store
          /\ \A j \in DOMAIN store \ {req'.id} : store'[j] = store[j]]_vars

C6_StoredPriorityInEnum ==
    \A i \in DOMAIN store : store[i].priority \in PriorityEnum

\* C7: with the repository ready, for an id that no row has, findById,
\* update and toggleComplete return null and delete returns false, none of
\* them throws and none of them changes the table.
C7_AbsentIdIsNotFound ==
    [][(/\ RepoReady
        /\ req'.op \in {"GET", "PATCH", "DELETE", "toggleComplete"}
        /\ req'.id \notin DOMAIN store) =>
          /\ (GetReq(req'.id) \/ ToggleCall(req'.id)
                  \/ (req'.op = "PATCH" /\ PatchReq(req'.id, req'.body)))
                => (svc'.ret.kind = "null" /\ store' = store)
          /\ DeleteReq(req'.id)
                => (svc'.ret.kind = "bool" /\ ~svc'.ret.value /\ store' = store)]_vars

\* C8: with the repository ready, GET, PATCH and DELETE on /todos/{id} with
\* an id of any format that no row has answer 404 "Todo not found".
C8_AbsentIdAnswers404 ==
    [][(/\ RepoReady
        /\ req'.op \in {"GET", "PATCH", "DELETE"}
        /\ req'.id \notin DOMAIN store
        /\ (GetReq(req'.id) \/ DeleteReq(req'.id)
               \/ (req'.op = "PATCH" /\ PatchReq(req'.id, req'.body))))
          => resp' = NotFound]_vars

\* C9: POST with a title that is missing, empty or whitespace-only answers
\* 400 "Title is required", makes no service call and leaves the table as
\* it was.
C9_BlankTitleRejected ==
    [][(/\ req'.op = "POST"
        /\ PostReq(req'.body)
        /\ (~Has(req'.body, "title") \/ Blank(req'.body.title))) =>
          /\ resp' = Fail(400, "Title is required")
          /\ svc'.op = "none"
          /\ store' = store]_vars

\* a whitespace-only title of two characters was answered 400 while the
\* table held a row
C9_Witness ==
    /\ req.op = "POST"
    /\ Has(req.body, "title")
    /\ req.body.title = <<" ", " ">>
    /\ resp.status = 400
    /\ svc.op = "none"
    /\ DOMAIN store # {}

\* C10: delete(id) returns true exactly when a row with that id existed and
\* removes it; a delete of an id whose row has been deleted returns false
\* and changes nothing; and such an id has no row from then on.
C10_DeleteIsFinal ==
    [][/\ (req'.op = "DELETE" /\ DeleteReq(req'.id) /\ RepoReady) =>
            /\ (svc'.ret.kind = "bool" /\ svc'.ret.value) <=> (req'.id \in DOMAIN store)
            /\ req'.id \notin DOMAIN store'
            /\ (req'.id \in usedIds \ DOMAIN store) =>
                  (svc'.ret.kind = "bool" /\ ~svc'.ret.value /\ store' = store)
       /\ \A id \in usedIds \ DOMAIN store : id \notin DOMAIN store']_vars

\* C11: toggleComplete(id) on an existing todo inverts completed, leaves
\* the other data fields as they were and returns the record as stored;
\* and a toggleComplete(id) that follows a toggleComplete(id) directly
\* returns the todo to the completed value it had before the first.
C11_ToggleInvertsTwiceRestores ==
    [][(/\ req'.op = "toggleComplete"
        /\ ToggleCall(req'.id)
        /\ RepoReady
        /\ req'.id \in DOMAIN store) =>
          /\ svc'.ret.kind = "value"
          /\ svc'.ret.value = Entity(store', req'.id)
          /\ store'[req'.id].completed = ~store[req'.id].completed
          /\ \A k \in Columns \ {"completed"} :
                store'[req'.id][k] = store[req'.id][k]
          /\ (req.op = "toggleComplete" /\ req.id = req'.id
                 /\ svc.ret.kind = "value") =>
                svc'.ret.value.completed = ~svc.ret.value.completed]_vars

\* a todo was toggled, after the time of its creation, back to the value
\* completed had at its creation
C11_Witness ==
    /\ req.op = "toggleComplete"
    /\ svc.ret.kind = "value"
    /\ svc.ret.value.completed = FALSE
    /\ svc.ret.value.updatedAt > svc.ret.value.createdAt
    /\ store[req.id].completed = FALSE

\* the ids of the todos that agree with each of completed and priority that
\* filters gives
Selected(s, filters) ==
    {i \in DOMAIN s :
        /\ Has(filters, "completed") => s[i].completed = filters.completed
        /\ Has(filters, "priority") => s[i].priority = filters.priority}

\* list holds, once each and as stored, exactly the todos of s with the ids
\* given, a later createdAt never after an earlier one
ListsNewestFirst(list, s, ids) ==
    /\ {list[n].id : n \in DOMAIN list} = ids
    /\ Len(list) = Cardinality(ids)
    /\ \A n \in DOMAIN list : list[n] = Entity(s, list[n].id)
    /\ \A a, b \in DOMAIN list :
          a < b => list[a].createdAt >= list[b].createdAt

\* C12: with the repository ready, findAll(filters) writes nothing and
\* returns exactly the stored todos that match every field the filter gives
\* (all of them when it gives none), ordered by createdAt descending.
C12_FindAllFiltersAndOrders ==
    [][(/\ req'.op = "findAll"
        /\ ListCall(req'.filters)
        /\ RepoReady) =>
          /\ svc'.ret.kind = "value"
          /\ store' = store
          /\ ListsNewestFirst(svc'.ret.value, store,
                              Selected(store, req'.filters))]_vars

\* of two stored todos findAll({completed: false, priority: "high"})
\* returned one
C12_Witness ==
    /\ req.op = "findAll"
    /\ req.filters = [completed |-> FALSE, priority |-> "high"]
    /\ svc.ret.kind = "value"
    /\ Len(svc.ret.value) = 1
    /\ Cardinality(DOMAIN store) = 2

\* of two todos created at different times findAll() returned both
C12_OrderWitness ==
    /\ req.op = "findAll"
    /\ req.filters = <<>>
    /\ svc.ret.kind = "value"
    /\ Len(svc.ret.value) = 2
    /\ svc.ret.value[1].createdAt > svc.ret.value[2].createdAt

\* the ids of the todos that GET /todos is to select for the parameters of
\* query: completed=true the completed ones, completed=false the others,
\* priority=p those of priority p
QuerySelected(s, query) ==
    {i \in DOMAIN s :
        /\ (Has(query, "completed") /\ query.completed = "true")
              => s[i].completed
        /\ (Has(query, "completed") /\ query.completed = "false")
              => ~s[i].completed
        /\ Has(query, "priority") => s[i].priority = query.priority}

\* C17: with the repository ready, GET /todos answers 200 with exactly the
\* stored todos that match every supplied query parameter (completed=true
\* or false, priority=low|medium|high), an absent parameter imposing no
\* constraint.
C17_ListMatchesQuery ==
    [][(/\ req'.op = "LIST"
        /\ ListReq(req'.query)
        /\ RepoReady) =>
          /\ resp'.status = 200 /\ resp'.success
          /\ store' = store
          /\ ListsNewestFirst(resp'.data, store,
                              QuerySelected(store, req'.query))]_vars

\* GET /todos?priority=high&completed=false answered with one of the two
\* stored todos, the other being completed or of another priority
C17_Witness ==
    /\ req.op = "LIST"
    /\ req.query = [completed |-> "false", priority |-> "high"]
    /\ resp.status = 200
    /\ Len(resp.data) = 1
    /\ Cardinality(DOMAIN store) = 2

\* C13: with the repository ready, create(data) with a non-blank title
\* stores and returns a todo whose id no stored todo had, with completed
\* false, priority medium when data gives none, and createdAt equal to
\* updatedAt.
C13_CreateAssignsDefaults ==
    [][(/\ req'.op = "create"
        /\ CreateCall(req'.data)
        /\ RepoReady
        /\ Has(req'.data, "title")
        /\ ~Blank(req'.data.title)) =>
          /\ svc'.ret.kind = "value"
          /\ svc'.ret.value.id \notin DOMAIN store
          /\ svc'.ret.value = Entity(store', svc'.ret.value.id)
          /\ svc'.ret.value.completed = FALSE
          /\ ~Has(req'.data, "priority") => svc'.ret.value.priority = "medium"
          /\ Has(req'.data, "priority")
                => svc'.ret.value.priority = req'.data.priority
          /\ svc'.ret.value.createdAt = svc'.ret.value.updatedAt
          /\ svc'.ret.value.createdAt = now]_vars

\* a second todo was created, later than the first and with no priority
\* given, and has priority medium
C13_Witness ==
    /\ req.op = "create"
    /\ ~Has(req.data, "priority")
    /\ svc.ret.kind = "value"
    /\ svc.ret.value.priority = "medium"
    /\ svc.ret.value.createdAt > 0
    /\ Cardinality(DOMAIN store) = 2

\* C14 as claimed: the service operation create(data) trims the title: the
\* stored and returned title is data.title without surrounding white space.
C14_CreateTrimsTitle ==
    [][(/\ req'.op = "create"
        /\ CreateCall(req'.data)
        /\ RepoReady
        /\ Has(req'.data, "title")) =>
          /\ svc'.ret.kind = "value"
          /\ svc'.ret.value.title = trim(req'.data.title)
          /\ store'[svc'.ret.value.id].title = trim(req'.data.title)]_vars

\* C14 amended: it is the POST handler that trims: for every POST body it
\* accepts, the stored and returned title is body.title without surrounding
\* white space; create(data) itself stores and returns data.title as given.
C14_PostTrimsCreateStoresAsGiven ==
    [][/\ (/\ req'.op = "POST"
            /\ PostReq(req'.body)
            /\ RepoReady
            /\ ~TitleRejected(req'.body)) =>
              /\ resp'.status = 201
              /\ resp'.data.title = trim(req'.body.title)
              /\ store'[resp'.data.id].title = trim(req'.body.title)
       /\ (/\ req'.op = "create"
            /\ CreateCall(req'.data)
            /\ RepoReady
            /\ Has(req'.data, "title")) =>
              /\ svc'.ret.kind = "value"
              /\ svc'.ret.value.title = req'.data.title
              /\ store'[svc'.ret.value.id].title = req'.data.title]_vars

\* POST {title: " a"} was answered 201 with the title "a"
C14_Witness ==
    /\ req.op = "POST"
    /\ Has(req.body, "title")
    /\ req.body.title = <<" ", "a">>
    /\ resp.status = 201
    /\ resp.data.title = <<"a">>
    /\ store[resp.data.id].title = <<"a">>

\* the requests that the five handlers answer
HandlerOps == {"LIST", "POST", "GET", "PATCH", "DELETE"}

\* a failure envelope: success false, an error text, status 400, 404 or 500
FailureEnvelope(r) ==
    /\ DOMAIN r = {"status", "success", "error"}
    /\ r.success = FALSE
    /\ r.status \in {400, 404, 500}

\* a success envelope with the given payload key: success true, status 200
\* or 201
SuccessEnvelope(r, key) ==
    /\ DOMAIN r = {"status", "success", key}
    /\ r.success = TRUE
    /\ r.status \in {200, 201}

\* C15 as claimed: every response of the five handlers is a success
\* envelope that carries data or a failure envelope.
C15_UniformEnvelope ==
    req.op \in HandlerOps =>
        (SuccessEnvelope(resp, "data") \/ FailureEnvelope(resp))

\* C15 amended: every response of the five handlers is a failure envelope
\* or a success envelope; the success envelope carries data, except that
\* of DELETE, which carries message and no data.
C15_EnvelopeDeleteCarriesMessage ==
    req.op \in HandlerOps =>
        \/ FailureEnvelope(resp)
        \/ req.op # "DELETE" /\ SuccessEnvelope(resp, "data")
        \/ req.op = "DELETE" /\ SuccessEnvelope(resp, "message")

\* a DELETE was answered 200 while another todo stays stored
C15_Witness ==
    /\ req.op = "DELETE"
    /\ resp.status = 200
    /\ resp.success
    /\ Has(resp, "message")
    /\ DOMAIN store # {}

\* the text each handler gives its 500 responses
FailureText ==
    [LIST   |-> "Failed to fetch todos",
     POST   |-> "Failed to create todo",
     GET    |-> "Failed to fetch todo",
     PATCH  |-> "Failed to update todo",
     DELETE |-> "Failed to delete todo"]

\* C16: the 500 responses of one handler are the same whatever error was
\* thrown: the body is the handler's fixed text and nothing of the error.
C16_FailureTextFixed ==
    (req.op \in HandlerOps /\ resp.status = 500) =>
        resp = [status |-> 500, success |-> FALSE, error |-> FailureText[req.op]]

\* a PATCH failed on an error of the database (an id it refuses), where
\* with the data source not set up it fails on the connection error
C16_Witness ==
    /\ req.op = "PATCH"
    /\ resp.status = 500
    /\ svc.ret.kind = "throw"
    /\ svc.ret.error = "QueryFailedError"

\* a PATCH failed on the connection error
C16_WitnessConnection ==
    /\ req.op = "PATCH"
    /\ resp.status = 500
    /\ svc.ret.kind = "throw"
    /\ svc.ret.error = "ConnectionError"

\* C18: when the data source could not be set up, every service operation
\* that is called (findAll, findById, create, update, delete,
\* toggleComplete) fails with that connection error and leaves the table
\* untouched, and the handler that called it answers 500.
C18_NotReadyFailsEveryOperation ==
    [][(/\ PromiseState(initPromise) = "rejected"
        /\ <<req', svc', resp'>> # <<req, svc, resp>>
        /\ svc'.op # "none") =>
          /\ svc'.ret = Throw("ConnectionError")
          /\ store' = store
          /\ req'.op \in HandlerOps => resp'.status = 500]_vars

\* the data source could not be set up and a POST with a title was
\* answered 500, nothing being stored
C18_Witness ==
    /\ PromiseState(initPromise) = "rejected"
    /\ req.op = "POST"
    /\ Has(req.body, "title")
    /\ svc.op = "create"
    /\ svc.ret = Throw("ConnectionError")
    /\ resp.status = 500
    /\ store = <<>>

\* C19: every successful update or toggleComplete of an existing todo
\* refreshes updatedAt (sets it to the clock's reading), update(id, {})
\* included, which leaves every other field as it was.
C19_MutationRefreshesUpdatedAt ==
    [][(/\ req'.op \in {"PATCH", "toggleComplete"}
        /\ \/ req'.op = "PATCH" /\ PatchReq(req'.id, req'.body)
           \/ req'.op = "toggleComplete" /\ ToggleCall(req'.id)
        /\ svc'.ret.kind = "value") =>
          /\ store'[req'.id].updatedAt = now
          /\ svc'.ret.value.updatedAt = now
          /\ (req'.op = "PATCH" /\ req'.body = <<>>) =>
                \A k \in Fields \ {"updatedAt"} :
                    store'[req'.id][k] = store[req'.id][k]]_vars

\* C20: the createdAt of a stored todo never changes, whatever update and
\* toggleComplete operations run and whatever the partial carries.
C20_CreatedAtNeverChanges ==
    [][\A i \in DOMAIN store \cap DOMAIN store' :
          store'[i].createdAt = store[i].createdAt]_vars

\* C21: a description that the POST body carries under the name
\* description is stored on the created todo and returned in the 201
\* response.
C21_PostStoresDescription ==
    [][(/\ req'.op = "POST"
        /\ PostReq(req'.body)
        /\ RepoReady
        /\ ~TitleRejected(req'.body)
        /\ Has(req'.body, "description")) =>
          /\ resp'.status = 201
          /\ store'[resp'.data.id].descriptrion = req'.body.description
          /\ \/ resp'.data.descriptrion = req'.body.description
             \/ /\ Has(resp'.data, "description")
                /\ resp'.data.description = req'.body.description]_vars

\* C28: with the repository ready, GET /todos with a completed parameter
\* of a value other than "true" (empty, "1", "yes") answers 200 with
\* exactly the todos whose completed is false.
C28_OddCompletedSelectsOpen ==
    [][(/\ req'.op = "LIST"
        /\ ListReq(req'.query)
        /\ RepoReady
        /\ Has(req'.query, "completed")
        /\ req'.query.completed # "true") =>
          /\ resp'.status = 200 /\ resp'.success
          /\ ListsNewestFirst(resp'.data, store,
                              {i \in DOMAIN store : ~store[i].completed})]_vars

\* GET /todos?completed=yes answered with the one todo of two that is not
\* completed
C28_Witness ==
    /\ req.op = "LIST"
    /\ req.query = [completed |-> "yes"]
    /\ resp.status = 200
    /\ Len(resp.data) = 1
    /\ ~resp.data[1].completed
    /\ Cardinality(DOMAIN store) = 2

\* the table after operation call has run on table s with nothing between
\* its steps
RunAlone(s, call) ==
    IF call.op = "update" THEN update(s, call.id, call.body).store
    ELSE IF call.op = "toggleComplete" THEN toggleComplete(s, call.id).store
    ELSE delete(s, call.id).store

\* the table after the workers' operations have run on s one after the
\* other, in the order the sequence gives
RECURSIVE RunInOrder(_, _)
RunInOrder(s, order) ==
    IF order = <<>> THEN s
    ELSE RunInOrder(RunAlone(s, tx[Head(order)]), Tail(order))

\* the orders in which the workers can take turns
Orders ==
    {o \in [1..Cardinality(Callers) -> Callers] :
        \A a, b \in DOMAIN o : a # b => o[a] # o[b]}

\* the row of id in table s, if any
RowAt(s, id) == IF id \in DOMAIN s THEN {s[id]} ELSE {}

\* C22: when update, toggleComplete and delete operations on one id have
\* overlapped and all have ended, the row of that id is what running them
\* one after another, in some order, leaves.
C22_OverlappingOpsSerializable ==
    \A id \in Uuids :
        (\A w \in Callers : tx[w].pc = "done" /\ tx[w].id = id) =>
            \E o \in Orders :
                RowAt(store, id) = RowAt(RunInOrder(base, o), id)

\* C24: a row that has been deleted is never in the table again, whatever
\* steps of an update or toggleComplete that was running are still to come.
C24_DeletedStaysDeleted ==
    [][\A id \in usedIds \ DOMAIN store : id \notin DOMAIN store']_vars

\* SpecToggle: the hook fetches and toggles the todos that another client
\* of the API has created
TogglePostBodies == {[title |-> <<"a">>]}

NextToggle ==
    \/ \E body \in TogglePostBodies : PostReq(body)
    \/ fetchTodos
    \/ \E id \in Uuids : useTodos_toggleComplete(id)
    \/ \E c \in DOMAIN net : Serve(c)
    \/ \E c \in DOMAIN net : Resume(c)

SpecToggle == Init /\ [][NextToggle]_vars

\* the calls of createTodo, updateTodo and deleteTodo
Mutations == {"create", "update", "delete"}

C25_ListMirrorsServer ==
    (/\ Mounted
     /\ \A c \in DOMAIN net :
           net[c].st = "unused" \/ (net[c].st = "settled" /\ net[c].ok)) =>
        /\ {todos[n] : n \in DOMAIN todos} = {Entity(store, i) : i \in DOMAIN store}
        /\ Len(todos) = Cardinality(DOMAIN store)

\* C26: the list never has two entries of the same id.
C26_ListIdsDistinct ==
    \A a, b \in DOMAIN todos : a # b => todos[a].id # todos[b].id

\* C27: the request of every toggleComplete(id) call of the hook inverts
\* the completed value the server has stored for id.
C27_HookToggleInvertsStored ==
    [][\A c \in DOMAIN net :
          (/\ net[c].st = "sent"
           /\ net[c].kind = "update"
           /\ net[c].via = "toggleComplete"
           /\ net'[c].st = "answered"
           /\ net[c].id \in DOMAIN store) =>
             /\ net[c].id \in DOMAIN store'
             /\ store'[net[c].id].completed = ~store[net[c].id].completed]_vars

\* C29: error goes from a message back to null only in a step that starts
\* fetchTodos; a call that resumes on a success leaves error as it is.
C29_ErrorClearedOnlyByFetch ==
    [][/\ (error # NoError /\ error' = NoError) =>
            (made' = made + 1 /\ net'[made'].kind = "fetch")
       /\ \A c \in DOMAIN net :
            (Succeeded(c) /\ net'[c].st = "settled") => error' = error]_vars

\* a createTodo resumed on a success while error held the message of an
\* earlier failure, and error holds it still
C29_Witness ==
    /\ error # NoError
    /\ \E c \in DOMAIN net :
          /\ net[c].st = "settled"
          /\ net[c].kind = "create"
          /\ net[c].ok
          /\ net[c].error = error
    /\ \E c \in DOMAIN net :
          /\ net[c].st = "settled"
          /\ net[c].outcome = "thrown"

====
